---- MODULE Spec2Model ----
(***************************************************************************)
(* Model of conteo_hospitalarias.py: the text, date and affirmative-value  *)
(* helpers and the report pipeline of main().                              *)
(*                                                                         *)
(* A Python str is a sequence of characters; a character is a one-letter   *)
(* TLA+ string, and a non-ASCII character is named by its code point       *)
(* ("U00ED" is i-acute, "U00CD" is I-acute, "U0301" the combining acute    *)
(* accent, "U2713" the check mark).  A value is tagged: Str(s) is a str,   *)
(* Null a missing cell (NaN), Ts(d) a datetime and None Python's None.     *)
(***************************************************************************)
EXTENDS Integers, Sequences, FiniteSets, TLC

VARIABLES
    \* ---- the Streamlit session of main() ----
    uploaded_file,   \* whether st.file_uploader holds a file
    df,              \* the DataFrame read from it: a sequence of rows
    col_incidentes,  \* selectbox INCIDENTES: a column name or "None"
    col_traslado,    \* selectbox TRASLADO: a column name or "None"
    usar_fechas,     \* checkbox "Activar filtro por fechas"
    col_fechas,      \* selectbox FECHAS (only while usar_fechas)
    fecha_inicio_str,\* text input "Fecha de inicio"
    fecha_fin_str,   \* text input "Fecha de fin"
    incluir_sm,      \* checkbox "Incluir analisis por Servicios Medicos"
    col_sm,          \* selectbox SERVICIOS MEDICOS (only while incluir_sm)
    valor_sm,        \* text input "Valor que identifica Servicios Medicos"
    salida,          \* what the last run of the script produced
    \* ---- one call of a helper function ----
    fn,              \* "idle", or the helper that was called
    arg,             \* its argument
    ahora,           \* datetime.now() at the call, as <<year, month, day>>
    ret              \* its outcome: [exc |-> ..., val |-> ...]

vars == <<uploaded_file, df, col_incidentes, col_traslado, usar_fechas, col_fechas,
          fecha_inicio_str, fecha_fin_str, incluir_sm, col_sm, valor_sm,
          salida, fn, arg, ahora, ret>>

appVars == <<uploaded_file, df, col_incidentes, col_traslado, usar_fechas, col_fechas,
             fecha_inicio_str, fecha_fin_str, incluir_sm, col_sm, valor_sm,
             salida>>

fnVars == <<fn, arg, ahora, ret>>

-----------------------------------------------------------------------------
(* Bounds of the model *)

\* longest argument string enumerated for es_traslado_afirmativo
MaxLen == 3

\* most rows of an uploaded table
MaxRows == 2

-----------------------------------------------------------------------------
(* Values *)

Null == [t |-> "null"]
Str(s) == [t |-> "str", s |-> s]
Ts(d) == [t |-> "ts", d |-> d]
None == [t |-> "None"]

IsStr(v) == v.t = "str"

\* pd.isna(v) or v is None
IsNa(v) == v.t \in {"null", "None"}

-----------------------------------------------------------------------------
(* Characters and str methods *)

Digits == {"0", "1", "2", "3", "4", "5", "6", "7", "8", "9"}

DigitVal(c) ==
    CASE c = "0" -> 0 [] c = "1" -> 1 [] c = "2" -> 2 [] c = "3" -> 3
      [] c = "4" -> 4 [] c = "5" -> 5 [] c = "6" -> 6 [] c = "7" -> 7
      [] c = "8" -> 8 [] c = "9" -> 9

\* str.isspace() on one character
IsSpace(c) == c \in {" ", "\t", "\n"}

UpperOf ==
    [a |-> "A", b |-> "B", c |-> "C", d |-> "D", e |-> "E", f |-> "F",
     g |-> "G", h |-> "H", i |-> "I", j |-> "J", k |-> "K", l |-> "L",
     m |-> "M", n |-> "N", o |-> "O", p |-> "P", q |-> "Q", r |-> "R",
     s |-> "S", t |-> "T", u |-> "U", v |-> "V", w |-> "W", x |-> "X",
     y |-> "Y", z |-> "Z", U00ED |-> "U00CD"]

LowerLetters == DOMAIN UpperOf

UpperLetters == {UpperOf[c] : c \in LowerLetters}

\* str.upper() on one character
UpperChar(c) == IF c \in LowerLetters THEN UpperOf[c] ELSE c

\* str.lower() on one character
LowerChar(c) ==
    IF c \in UpperLetters
    THEN CHOOSE l \in LowerLetters : UpperOf[l] = c
    ELSE c

StrUpper(s) == [i \in DOMAIN s |-> UpperChar(s[i])]

StrLower(s) == [i \in DOMAIN s |-> LowerChar(s[i])]

RECURSIVE LStrip(_)
LStrip(s) ==
    IF s # <<>> /\ IsSpace(Head(s)) THEN LStrip(Tail(s)) ELSE s

RECURSIVE RStrip(_)
RStrip(s) ==
    IF s # <<>> /\ IsSpace(s[Len(s)])
    THEN RStrip(SubSeq(s, 1, Len(s) - 1))
    ELSE s

\* str.strip()
StrStrip(s) == RStrip(LStrip(s))

\* str(v) of a cell
PyStr(v) ==
    CASE v.t = "str" -> v.s
      [] v.t = "null" -> <<"n", "a", "n">>
      [] v.t = "None" -> <<"N", "o", "n", "e">>

-----------------------------------------------------------------------------
(* limpiar_texto *)

NonAscii == {"U00ED", "U00CD", "U0301", "U2713"}

\* unicodedata.normalize('NFD', c) of one character
NFDChar(c) ==
    CASE c = "U00ED" -> <<"i", "U0301">>
      [] c = "U00CD" -> <<"I", "U0301">>
      [] OTHER -> <<c>>

RECURSIVE NFD(_)
NFD(s) == IF s = <<>> THEN <<>> ELSE NFDChar(Head(s)) \o NFD(Tail(s))

\* s.encode('ascii', 'ignore').decode('utf-8')
RECURSIVE AsciiIgnore(_)
AsciiIgnore(s) ==
    IF s = <<>> THEN <<>>
    ELSE (IF Head(s) \in NonAscii THEN <<>> ELSE <<Head(s)>>)
         \o AsciiIgnore(Tail(s))

\* lines 25-38 with the .strip() of line 34 dropped
limpiar_texto_sin_strip(texto) ==
    IF ~IsStr(texto) THEN texto
    ELSE Str(StrLower(AsciiIgnore(NFD(StrStrip(texto.s)))))

\* lines 25-38; the except branch is not taken: encode(..., 'ignore') and
\* normalize raise no UnicodeError on a str
limpiar_texto(texto) ==
    IF ~IsStr(texto) THEN texto
    ELSE Str(StrStrip(StrLower(AsciiIgnore(NFD(StrStrip(texto.s))))))

-----------------------------------------------------------------------------
(* float(str) on the characters of the model: an optional sign, then digits *)
(* with at most one decimal point and at least one digit, or inf / infinity *)
(* / nan.  Anything else raises ValueError.                                 *)

IsDecimal(s) ==
    /\ s # <<>>
    /\ \A i \in DOMAIN s : s[i] \in Digits \cup {"."}
    /\ Cardinality({i \in DOMAIN s : s[i] = "."}) <= 1
    /\ \E i \in DOMAIN s : s[i] \in Digits

FloatWords ==
    {<<"i", "n", "f">>, <<"n", "a", "n">>,
     <<"i", "n", "f", "i", "n", "i", "t", "y">>}

PyFloat(s) ==
    LET signed == s # <<>> /\ s[1] \in {"+", "-"}
        body == IF signed THEN Tail(s) ELSE s
        neg == signed /\ s[1] = "-"
    IN  IF IsDecimal(body)
        THEN [exc |-> "none",
              sign |-> IF \A i \in DOMAIN body : body[i] \in {"0", "."}
                       THEN "zero"
                       ELSE IF neg THEN "neg" ELSE "pos"]
        ELSE IF StrLower(body) \in FloatWords
        THEN [exc |-> "none",
              sign |-> IF StrLower(body) = <<"n", "a", "n">> THEN "nan"
                       ELSE IF neg THEN "neg" ELSE "pos"]
        ELSE [exc |-> "ValueError", sign |-> "nan"]

-----------------------------------------------------------------------------
(* es_traslado_afirmativo *)

afirmativos ==
    {<<"s", "U00ED">>, <<"s", "i">>, <<"s">>, <<"y", "e", "s">>,
     <<"t", "r", "u", "e">>, <<"1">>,
     <<"v", "e", "r", "d", "a", "d", "e", "r", "o">>,
     <<"a", "f", "i", "r", "m", "a", "t", "i", "v", "o">>,
     <<"x">>, <<"U2713">>, <<"c", "h", "e", "c", "k">>,
     <<"c", "h", "e", "c", "k", "e", "d">>, <<"o", "k">>,
     <<"a", "c", "e", "p", "t", "a", "r">>,
     <<"c", "o", "n", "f", "i", "r", "m", "a", "d", "o">>,
     <<"r", "e", "a", "l", "i", "z", "a", "d", "o">>}

\* the exceptions the try around float() catches
FloatCaught == {"ValueError", "TypeError"}

\* float(valor_str) > 0 with > replaced by >=
NumeroPositivoOCero(f) == f.sign \in {"pos", "zero"}

\* float(valor_str) > 0
NumeroPositivo(f) == f.sign = "pos"

\* lines 155-161: f is the outcome of float(valor_str)
Clasificar(valor_str, f) ==
    IF f.exc = "none"
    THEN [exc |-> "none",
          val |-> NumeroPositivo(f) \/ valor_str \in afirmativos]
    ELSE IF f.exc \in FloatCaught
    THEN [exc |-> "none", val |-> valor_str \in afirmativos]
    ELSE [exc |-> f.exc, val |-> FALSE]

\* lines 145-161 on valor_str
ClasificarTexto(valor_str) == Clasificar(valor_str, PyFloat(valor_str))

es_traslado_afirmativo(valor) ==
    IF IsNa(valor)
    THEN [exc |-> "none", val |-> FALSE]
    ELSE ClasificarTexto(StrLower(StrStrip(PyStr(valor))))

-----------------------------------------------------------------------------
(* datetime.strptime, for the directives of parsear_fecha's formats *)

\* a date is <<year, month, day>>; datetime's <= on midnight datetimes
DateLE(a, b) ==
    \/ a[1] < b[1]
    \/ a[1] = b[1] /\ a[2] < b[2]
    \/ a[1] = b[1] /\ a[2] = b[2] /\ a[3] <= b[3]

IsLeap(y) == (y % 4 = 0 /\ y % 100 # 0) \/ y % 400 = 0

DaysInMonth(y, m) ==
    IF m = 2 THEN (IF IsLeap(y) THEN 29 ELSE 28)
    ELSE IF m \in {4, 6, 9, 11} THEN 30 ELSE 31

\* the fields of s between occurrences of the character sep
RECURSIVE Split(_, _)
Split(s, sep) ==
    IF \A i \in DOMAIN s : s[i] # sep
    THEN <<s>>
    ELSE LET k == CHOOSE i \in DOMAIN s :
                      s[i] = sep /\ \A j \in 1..(i - 1) : s[j] # sep
         IN  <<SubSeq(s, 1, k - 1)>> \o Split(SubSeq(s, k + 1, Len(s)), sep)

AllDigits(f) == \A i \in DOMAIN f : f[i] \in Digits

RECURSIVE NumVal(_)
NumVal(f) ==
    IF f = <<>> THEN 0
    ELSE 10 * NumVal(SubSeq(f, 1, Len(f) - 1)) + DigitVal(f[Len(f)])

\* %d: 3[0-1] | [1-2]\d | 0[1-9] | [1-9] | " "[1-9]
MatchD(f) ==
    \/ Len(f) = 1 /\ f[1] \in Digits \ {"0"}
    \/ Len(f) = 2 /\ f[1] = "3" /\ f[2] \in {"0", "1"}
    \/ Len(f) = 2 /\ f[1] \in {"1", "2"} /\ f[2] \in Digits
    \/ Len(f) = 2 /\ f[1] \in {"0", " "} /\ f[2] \in Digits \ {"0"}

\* %m: 1[0-2] | 0[1-9] | [1-9]
MatchM(f) ==
    \/ Len(f) = 1 /\ f[1] \in Digits \ {"0"}
    \/ Len(f) = 2 /\ f[1] = "1" /\ f[2] \in {"0", "1", "2"}
    \/ Len(f) = 2 /\ f[1] = "0" /\ f[2] \in Digits \ {"0"}

MonthAbbr ==
    <<<<"j", "a", "n">>,
      <<"f", "e", "b">>,
      <<"m", "a", "r">>,
      <<"a", "p", "r">>,
      <<"m", "a", "y">>,
      <<"j", "u", "n">>,
      <<"j", "u", "l">>,
      <<"a", "u", "g">>,
      <<"s", "e", "p">>,
      <<"o", "c", "t">>,
      <<"n", "o", "v">>,
      <<"d", "e", "c">>>>

MonthName ==
    <<<<"j", "a", "n", "u", "a", "r", "y">>,
      <<"f", "e", "b", "r", "u", "a", "r", "y">>,
      <<"m", "a", "r", "c", "h">>,
      <<"a", "p", "r", "i", "l">>,
      <<"m", "a", "y">>,
      <<"j", "u", "n", "e">>,
      <<"j", "u", "l", "y">>,
      <<"a", "u", "g", "u", "s", "t">>,
      <<"s", "e", "p", "t", "e", "m", "b", "e", "r">>,
      <<"o", "c", "t", "o", "b", "e", "r">>,
      <<"n", "o", "v", "e", "m", "b", "e", "r">>,
      <<"d", "e", "c", "e", "m", "b", "e", "r">>>>

MonthIndex(names, f) ==
    CHOOSE k \in 1..12 : names[k] = StrLower(f)

\* whether field f matches directive dir, and the number it stands for
MatchField(dir, f) ==
    CASE dir = "d" -> MatchD(f)
      [] dir = "m" -> MatchM(f)
      [] dir = "Y" -> Len(f) = 4 /\ AllDigits(f)
      [] dir = "y" -> Len(f) = 2 /\ AllDigits(f)
      [] dir = "b" -> \E k \in 1..12 : MonthAbbr[k] = StrLower(f)
      [] dir = "B" -> \E k \in 1..12 : MonthName[k] = StrLower(f)

FieldVal(dir, f) ==
    CASE dir = "d" -> IF f[1] = " " THEN NumVal(Tail(f)) ELSE NumVal(f)
      [] dir = "m" -> NumVal(f)
      [] dir = "Y" -> NumVal(f)
      [] dir = "y" -> IF NumVal(f) <= 68 THEN 2000 + NumVal(f)
                      ELSE 1900 + NumVal(f)
      [] dir = "b" -> MonthIndex(MonthAbbr, f)
      [] dir = "B" -> MonthIndex(MonthName, f)

Role(dir) ==
    IF dir \in {"Y", "y"} THEN 1 ELSE IF dir \in {"m", "b", "B"} THEN 2 ELSE 3

NoDate == <<0, 0, 0>>

\* the value of the field of fs that gives part r (1 year, 2 month, 3 day)
Part(fs, fmt, r) ==
    FieldVal(fmt.dirs[CHOOSE j \in 1..3 : Role(fmt.dirs[j]) = r],
             fs[CHOOSE j \in 1..3 : Role(fmt.dirs[j]) = r])

\* datetime(y, m, d)
MakeDate(y, m, d) ==
    IF y < 1 \/ d > DaysInMonth(y, m)
    THEN [exc |-> "ValueError", val |-> NoDate]
    ELSE [exc |-> "none", val |-> <<y, m, d>>]

\* strptime on the fields fs of the string
StrptimeFields(fs, fmt) ==
    IF Len(fs) # 3 \/ \E i \in 1..3 : ~MatchField(fmt.dirs[i], fs[i])
    THEN [exc |-> "ValueError", val |-> NoDate]
    ELSE MakeDate(Part(fs, fmt, 1), Part(fs, fmt, 2), Part(fs, fmt, 3))

\* datetime.strptime(s, fmt): fmt is three directives around one separator
strptime(s, fmt) == StrptimeFields(Split(s, fmt.sep), fmt)

Fmt(d1, d2, d3, sep) == [dirs |-> <<d1, d2, d3>>, sep |-> sep]

-----------------------------------------------------------------------------
(* parsear_fecha *)

formatos ==
    <<Fmt("d", "m", "Y", "/"), Fmt("d", "m", "y", "/"),
      Fmt("Y", "m", "d", "-"), Fmt("d", "m", "Y", "-"),
      Fmt("m", "d", "Y", "/"), Fmt("m", "d", "y", "/"),
      Fmt("Y", "m", "d", "/"), Fmt("d", "m", "Y", "."),
      Fmt("d", "m", "Y", " "), Fmt("d", "b", "Y", " "),
      Fmt("d", "B", "Y", " ")>>

\* re.sub(r'\s+', ' ', s)
RECURSIVE CollapseSpaces(_)
CollapseSpaces(s) ==
    IF s = <<>> THEN <<>>
    ELSE IF IsSpace(Head(s))
    THEN <<" ">> \o CollapseSpaces(LStrip(s))
    ELSE <<Head(s)>> \o CollapseSpaces(Tail(s))

\* datetime.now().replace(year=datetime.now().year + 1)
ReplaceYear(now) ==
    IF now[3] > DaysInMonth(now[1] + 1, now[2])
    THEN [exc |-> "ValueError", val |-> NoDate]
    ELSE [exc |-> "none", val |-> <<now[1] + 1, now[2], now[3]>>]

\* the condition of line 61; a ValueError in it is caught by the loop's except
Razonable(parsed, now) ==
    /\ parsed[1] >= 2000
    /\ now[3] <= DaysInMonth(now[1] + 1, now[2])
    /\ DateLE(parsed, ReplaceYear(now).val)

\* the for loop over formatos, from format number i on
RECURSIVE ProbarFormatos(_, _, _)

\* one turn of the loop: p is strptime's outcome for format number i
ProbarFormato(fecha_str, i, now, p) ==
    IF p.exc = "none" /\ Razonable(p.val, now)
    THEN Ts(p.val)
    ELSE ProbarFormatos(fecha_str, i + 1, now)

ProbarFormatos(fecha_str, i, now) ==
    IF i > Len(formatos) THEN None
    ELSE ProbarFormato(fecha_str, i, now, strptime(fecha_str, formatos[i]))

parsear_fecha(fecha, now) ==
    IF IsNa(fecha) \/ fecha = Str(<<>>) THEN None
    ELSE IF fecha.t = "ts" THEN fecha
    ELSE ProbarFormatos(CollapseSpaces(StrStrip(PyStr(fecha))), 1, now)

-----------------------------------------------------------------------------
(* The session before a file is uploaded, and a helper not yet called *)

Blank == [exc |-> "none", val |-> None]

NoSalida ==
    [estado |-> "nada", mensajes |-> {}, df_clean |-> <<>>, df_sm |-> <<>>,
     df_no_sm |-> <<>>, conteos |-> <<>>, traslados_info |-> <<>>]

AppIdle ==
    /\ uploaded_file = FALSE
    /\ df = <<>>
    /\ col_incidentes = "None"
    /\ col_traslado = "None"
    /\ usar_fechas = FALSE
    /\ col_fechas = "None"
    /\ fecha_inicio_str = <<>>
    /\ fecha_fin_str = <<>>
    /\ incluir_sm = FALSE
    /\ col_sm = "None"
    /\ valor_sm = <<"S", "M">>
    /\ salida = NoSalida

\* the clock of the model: 5 November 2026
Hoy == <<2026, 11, 5>>

FnIdle ==
    /\ fn = "idle"
    /\ arg = Null
    /\ ahora = Hoy
    /\ ret = Blank

\* all strings of at most n characters of alphabet
StringsUpTo(alphabet, n) == UNION {[1..k -> alphabet] : k \in 0..n}

-----------------------------------------------------------------------------
(* Calls of es_traslado_afirmativo on every short string, the spec's        *)
(* examples and NaN                                                         *)

AfirmativoAlphabet ==
    {"s", "S", "i", "U00ED", "U00CD", "1", "0", "2", "-", ".", " ", "x",
     "n", "o"}

AfirmativoEjemplos ==
    {<<"S", "U00ED">>, <<"S", "I">>, <<"1">>, <<"t", "r", "u", "e">>,
     <<"2">>, <<"n", "o">>, <<"0">>, <<>>, <<" ", "T", "r", "u", "e", " ">>,
     <<"U2713">>, <<"-", "1", ".", "5">>, <<"i", "n", "f">>,
     <<"N", "a", "N">>, <<"0", ".", "0", "1">>}

AfirmativoArgs ==
    {Null} \cup {Str(s) : s \in StringsUpTo(AfirmativoAlphabet, MaxLen)
                               \cup AfirmativoEjemplos}

InitAfirmativo ==
    /\ AppIdle
    /\ fn = "idle"
    /\ arg \in AfirmativoArgs
    /\ ahora = Hoy
    /\ ret = Blank

LlamarAfirmativo ==
    /\ fn = "idle"
    /\ fn' = "es_traslado_afirmativo"
    /\ ret' = es_traslado_afirmativo(arg)
    /\ UNCHANGED <<arg, ahora>>
    /\ UNCHANGED appVars

NextAfirmativo == LlamarAfirmativo

SpecAfirmativo == InitAfirmativo /\ [][NextAfirmativo]_vars

-----------------------------------------------------------------------------
(* Calls of parsear_fecha on three fields around a separator *)

FechaCampos ==
    {<<"5">>, <<"0", "5">>, <<"1", "2">>, <<"3", "1">>, <<"9", "9">>,
     <<"1", "9", "9", "9">>, <<"2", "0", "2", "4">>, <<"2", "0", "2", "7">>,
     <<"2", "0", "2", "8">>, <<"M", "a", "r">>, <<"m", "a", "r", "c", "h">>}

FechaSeparadores == {"/", "-", ".", " "}

FechaArgs ==
    {Null, Str(<<>>), Ts(<<1999, 1, 1>>)} \cup
    {Str(a \o <<sep>> \o b \o <<sep>> \o c) :
        <<a, b, c, sep>> \in
            FechaCampos \X FechaCampos \X FechaCampos \X FechaSeparadores}

\* 29 February 2024 is a now whose year cannot be replaced by the next one
Ahoras == {Hoy, <<2024, 2, 29>>}

InitFecha ==
    /\ AppIdle
    /\ fn = "idle"
    /\ arg \in FechaArgs
    /\ ahora \in Ahoras
    /\ ret = Blank

LlamarParsearFecha ==
    /\ fn = "idle"
    /\ fn' = "parsear_fecha"
    /\ ret' = [exc |-> "none", val |-> parsear_fecha(arg, ahora)]
    /\ UNCHANGED <<arg, ahora>>
    /\ UNCHANGED appVars

NextFecha == LlamarParsearFecha

SpecFecha == InitFecha /\ [][NextFecha]_vars

-----------------------------------------------------------------------------
(* Calls of limpiar_texto on every short text and on values that are no str *)

TextoAlphabet ==
    {" ", "\t", "A", "a", "U00ED", "U00CD", "U0301", "U2713"}

TextoArgs ==
    {Null, None, Ts(Hoy)}
        \cup {Str(s) : s \in StringsUpTo(TextoAlphabet, MaxLen)}

InitTexto ==
    /\ AppIdle
    /\ fn = "idle"
    /\ arg \in TextoArgs
    /\ ahora = Hoy
    /\ ret = Blank

LlamarLimpiarTexto ==
    /\ fn = "idle"
    /\ fn' = "limpiar_texto"
    /\ ret' = [exc |-> "none", val |-> limpiar_texto(arg)]
    /\ UNCHANGED <<arg, ahora>>
    /\ UNCHANGED appVars

NextTexto == LlamarLimpiarTexto

SpecTexto == InitTexto /\ [][NextTexto]_vars

-----------------------------------------------------------------------------
(* DataFrames.  The uploaded table is a sequence of rows, a row a function  *)
(* from column names to cells.  A DataFrame derived from it is a sequence   *)
(* of [idx, celdas]: idx is the row's index label (its position in the      *)
(* upload), which filters keep.                                             *)

Columnas == <<"Tipo", "Estado", "Fecha", "Servicio">>

ColumnSet == {Columnas[i] : i \in DOMAIN Columnas}

\* df.copy()
Copy(d) == [i \in DOMAIN d |-> [idx |-> i, celdas |-> d[i]]]

\* frame[mask]: the rows whose index label is in keep, in order
RECURSIVE Rows(_, _)
Rows(frame, keep) ==
    IF frame = <<>> THEN <<>>
    ELSE (IF Head(frame).idx \in keep THEN <<Head(frame)>> ELSE <<>>)
         \o Rows(Tail(frame), keep)

\* frame[col] = vals, row by row, also when col is a new column
SetColumn(frame, col, vals) ==
    [i \in DOMAIN frame |->
        [idx |-> frame[i].idx,
         celdas |-> [c \in (DOMAIN frame[i].celdas) \cup {col} |->
                        IF c = col THEN vals[i] ELSE frame[i].celdas[c]]]]

\* frame[col].value_counts(): NaN is not counted
value_counts(frame, col) ==
    LET labels == {frame[i].celdas[col] : i \in DOMAIN frame} \ {Null}
    IN  [l \in labels |->
            Cardinality({i \in DOMAIN frame : frame[i].celdas[col] = l})]

\* len(frame) in place of the sum
ContarFilas(frame, col) == Len(frame)

\* frame[col].apply(es_traslado_afirmativo).sum()
ContarTraslados(frame, col) ==
    Cardinality({i \in DOMAIN frame :
                    es_traslado_afirmativo(frame[i].celdas[col]).val})

-----------------------------------------------------------------------------
(* main(): the script that Streamlit runs again on every interaction *)

Cfg ==
    [col_incidentes |-> col_incidentes, col_traslado |-> col_traslado,
     usar_fechas |-> usar_fechas, col_fechas |-> col_fechas,
     fecha_inicio_str |-> fecha_inicio_str, fecha_fin_str |-> fecha_fin_str,
     incluir_sm |-> incluir_sm, col_sm |-> col_sm, valor_sm |-> valor_sm]

\* selectbox index: the first column whose lower-cased name holds a keyword
Keywords ==
    [Tipo |-> {}, Estado |-> {}, Fecha |-> {"fecha"},
     Servicio |-> {"servicio"}]

DefaultColumn(words) ==
    IF \E i \in DOMAIN Columnas : Keywords[Columnas[i]] \cap words # {}
    THEN Columnas[CHOOSE i \in DOMAIN Columnas :
            /\ Keywords[Columnas[i]] \cap words # {}
            /\ \A j \in 1..(i - 1) : Keywords[Columnas[j]] \cap words = {}]
    ELSE "None"

TOTAL == "Total de Incidentes"
SM == "Incidentes atendidos por Servicios Medicos"
PC == "Incidentes atendidos por Operativa Medica Proteccion Civil"
T_TOTAL == "Total de traslados"
T_SM == "Traslados por Servicios Medicos"
T_PC == "Traslados por Operativa Medica Proteccion Civil"

FmtEntrada == Fmt("d", "m", "Y", "/")

\* lines 306-335: fecha_inicio, fecha_fin and the message shown
\* a start later than the end is reported and both dates are kept
RangoInvertido(ini, fin) ==
    [fecha_inicio |-> Ts(ini), fecha_fin |-> Ts(fin),
     mensajes |-> {"error_inicio_mayor"}]

\* lines 326-335 on the outcomes of the two calls of strptime
FechasParseadas(ini, fin) ==
    IF ini.exc # "none"
    THEN [fecha_inicio |-> None, fecha_fin |-> None,
          mensajes |-> {"error_formato"}]
    ELSE IF fin.exc # "none"
    THEN [fecha_inicio |-> Ts(ini.val), fecha_fin |-> None,
          mensajes |-> {"error_formato"}]
    ELSE IF ~DateLE(ini.val, fin.val)
    THEN RangoInvertido(ini.val, fin.val)
    ELSE [fecha_inicio |-> Ts(ini.val), fecha_fin |-> Ts(fin.val),
          mensajes |-> {"info_rango"}]

FechasDeEntrada(cfg) ==
    IF cfg.usar_fechas /\ cfg.col_fechas # "None"
       /\ cfg.fecha_inicio_str # <<>> /\ cfg.fecha_fin_str # <<>>
    THEN FechasParseadas(strptime(StrStrip(cfg.fecha_inicio_str), FmtEntrada),
                         strptime(StrStrip(cfg.fecha_fin_str), FmtEntrada))
    ELSE [fecha_inicio |-> None, fecha_fin |-> None, mensajes |-> {}]

\* line 373
FiltroActivo(cfg, fechas) ==
    /\ cfg.usar_fechas
    /\ fechas.fecha_inicio # None
    /\ fechas.fecha_fin # None
    /\ cfg.col_fechas # "None"

\* lines 376-379 with <= fecha_fin replaced by < fecha_fin
EnRangoExclusivo(d, ini, fin) == DateLE(ini, d) /\ DateLE(d, fin) /\ d # fin

\* lines 376-379: fecha_inicio <= fecha_parseada <= fecha_fin
EnRango(d, ini, fin) == DateLE(ini, d) /\ DateLE(d, fin)

\* lines 375-379 on the frame that holds the column fecha_parseada
Filtrar(con_fecha, ini, fin) ==
    Rows(con_fecha,
         {con_fecha[i].idx : i \in
             {j \in DOMAIN con_fecha :
                 /\ con_fecha[j].celdas["fecha_parseada"] # None
                 /\ EnRango(con_fecha[j].celdas["fecha_parseada"].d,
                            ini.d, fin.d)}})

\* lines 374-379
FiltrarPorFechas(frame, col, ini, fin, now) ==
    Filtrar(SetColumn(frame, "fecha_parseada",
                      [i \in DOMAIN frame |->
                          parsear_fecha(frame[i].celdas[col], now)]),
            ini, fin)

\* line 403: astype(str).str.strip().str.upper()
LimpiarSm(v) == Str(StrUpper(StrStrip(PyStr(v))))

\* line 406: df_clean[col_sm] == valor_sm.upper()
EsSm(celda, valor) == celda = Str(StrUpper(valor))

\* lines 409 and 412: a CountTable is stored only for a partition with rows
GuardaConteo(parte, cols, col) == parte # <<>> /\ col \in cols

\* lines 416 and 419 guarded like lines 409 and 412
GuardaTrasladosSiHayFilas(parte, cols, col) == parte # <<>> /\ col \in cols

\* lines 416 and 419: col_traslado in parte.columns, also of an empty frame
GuardaTraslados(parte, cols, col) == col \in cols

\* lines 409-420 on the partitions df_sm and df_no_sm
AnalizarPartes(df_sm, df_no_sm, cols, cfg) ==
    [df_sm |-> df_sm, df_no_sm |-> df_no_sm,
     conteos |->
        [n \in {m \in {SM, PC} :
                  GuardaConteo(IF m = SM THEN df_sm ELSE df_no_sm, cols,
                               cfg.col_incidentes)} |->
            value_counts(IF n = SM THEN df_sm ELSE df_no_sm,
                         cfg.col_incidentes)],
     traslados_info |->
        [n \in {m \in {T_SM, T_PC} :
                  GuardaTraslados(IF m = T_SM THEN df_sm ELSE df_no_sm, cols,
                                  cfg.col_traslado)} |->
            ContarTraslados(IF n = T_SM THEN df_sm ELSE df_no_sm,
                            cfg.col_traslado)]]

\* lines 406-407 on the cleaned frame: sm holds the index labels of df_sm
Partir(limpio, sm, cols, cfg) ==
    AnalizarPartes(Rows(limpio, sm),
                   Rows(limpio, {limpio[i].idx : i \in DOMAIN limpio} \ sm),
                   cols, cfg)

\* lines 401-420: the split column is overwritten, then the frame is split
AnalizarSm(limpio, cols, cfg) ==
    Partir(limpio,
           {limpio[i].idx : i \in
               {j \in DOMAIN limpio :
                   EsSm(limpio[j].celdas[cfg.col_sm], cfg.valor_sm)}},
           cols, cfg)

\* line 401
ConSm(cfg, cols) ==
    cfg.incluir_sm /\ cfg.col_sm # "None" /\ cfg.col_sm \in cols

\* lines 392-398: the overall count and the overall transfers
General(df_clean, cols, cfg) ==
    [conteos |->
        [n \in {m \in {TOTAL} : cfg.col_incidentes \in cols} |->
            value_counts(df_clean, cfg.col_incidentes)],
     traslados_info |->
        [n \in {m \in {T_TOTAL} : cfg.col_traslado \in cols} |->
            ContarTraslados(df_clean, cfg.col_traslado)]]

\* the report data: the dicts conteos and traslados_info, and df_clean
Reporte(limpio, general, partes, mensajes) ==
    [estado |-> "reporte",
     mensajes |-> mensajes \cup {"success_reportes"},
     df_clean |-> limpio,
     df_sm |-> partes.df_sm,
     df_no_sm |-> partes.df_no_sm,
     conteos |-> general.conteos @@ partes.conteos,
     traslados_info |-> general.traslados_info @@ partes.traslados_info]

SinPartes ==
    [df_sm |-> <<>>, df_no_sm |-> <<>>, conteos |-> <<>>,
     traslados_info |-> <<>>]

\* lines 388-420
Analizar(df_clean, limpio, cols, cfg, mensajes) ==
    Reporte(limpio, General(df_clean, cols, cfg),
            IF ConSm(cfg, cols) THEN AnalizarSm(limpio, cols, cfg)
            ELSE SinPartes,
            mensajes)

\* the result of a run that does not reach the report
SinReporte(estado, mensajes) ==
    [estado |-> estado, mensajes |-> mensajes, df_clean |-> <<>>,
     df_sm |-> <<>>, df_no_sm |-> <<>>, conteos |-> <<>>,
     traslados_info |-> <<>>]

\* line 384 with the test dropped
EmptyNunca(frame) == FALSE

\* line 384: df_clean.empty
Empty(frame) == frame = <<>>

\* lines 383-420: nothing is computed from an empty frame
Verificar(df_clean, cols, cfg, mensajes) ==
    IF Empty(df_clean)
    THEN SinReporte("sin_datos", mensajes \cup {"error_sin_datos"})
    ELSE Analizar(df_clean,
                  IF ConSm(cfg, cols)
                  THEN SetColumn(df_clean, cfg.col_sm,
                                 [i \in DOMAIN df_clean |->
                                     LimpiarSm(df_clean[i].celdas[cfg.col_sm])])
                  ELSE df_clean,
                  cols, cfg, mensajes)

\* lines 369-420, after the button is pressed
Procesar(d, cfg, fechas, now) ==
    IF FiltroActivo(cfg, fechas)
    THEN Verificar(FiltrarPorFechas(Copy(d), cfg.col_fechas,
                                    fechas.fecha_inicio, fechas.fecha_fin,
                                    now),
                   ColumnSet \cup {"fecha_parseada"}, cfg,
                   fechas.mensajes \cup {"info_datos_filtrados"})
    ELSE Verificar(Copy(d), ColumnSet, cfg, fechas.mensajes)

\* line 364 with one chosen column being enough
HayColumnasUna(cfg) ==
    cfg.col_incidentes # "None" \/ cfg.col_traslado # "None"

\* line 364: if col_incidentes and col_traslado
HayColumnas(cfg) ==
    cfg.col_incidentes # "None" /\ cfg.col_traslado # "None"

\* lines 364-366 and 501-502 on the dates and messages of lines 306-335
Boton(d, cfg, clicked, fechas, now) ==
    IF HayColumnas(cfg)
    THEN IF clicked
         THEN Procesar(d, cfg, fechas, now)
         ELSE SinReporte("espera", fechas.mensajes)
    ELSE SinReporte("aviso", fechas.mensajes \cup {"warning_columnas"})

\* one run of the script body once a file is uploaded (lines 268-502)
Script(d, cfg, clicked, now) ==
    Boton(d, cfg, clicked, FechasDeEntrada(cfg), now)

-----------------------------------------------------------------------------
(* The uploaded tables and what the user enters *)

Caida == <<"C", "a", "U00ED", "d", "a">>
caida_ == <<"c", "a", "i", "d", "a">>
Quemadura == <<"Q", "u", "e", "m", "a", "d", "u", "r", "a">>
SiAcento == <<"S", "U00ED">>
D0101 == <<"0", "1", "/", "0", "1", "/", "2", "0", "2", "4">>
D3101 == <<"3", "1", "/", "0", "1", "/", "2", "0", "2", "4">>
D1502 == <<"1", "5", "/", "0", "2", "/", "2", "0", "2", "4">>
D010124 == <<"1", "/", "1", "/", "2", "4">>
SinFecha == <<"s", "i", "n", " ", "f", "e", "c", "h", "a">>

Fila(tipo, estado, fecha, servicio) ==
    [Tipo |-> tipo, Estado |-> estado, Fecha |-> fecha, Servicio |-> servicio]

Filas ==
    {Fila(Str(Caida), Str(SiAcento), Str(D0101), Str(<<"s", "m">>)),
     Fila(Str(caida_), Str(<<"n", "o">>), Str(D3101), Str(<<" ", "S", "M">>)),
     Fila(Str(Quemadura), Str(<<"2">>), Str(D1502), Str(<<"O", "T", "R", "O">>)),
     Fila(Str(Caida), Str(<<"S", "I">>), Str(D010124), Str(<<"S", "m">>)),
     Fila(Null, Null, Str(SinFecha), Null)}

Tablas == UNION {[1..n -> Filas] : n \in 0..MaxRows}

IncidentesChoices == {"Tipo"}
TrasladoChoices == {"Estado"}
FechasChoices == {"Fecha"}
SmChoices == {"Servicio", "Tipo", "Estado"}
FechaEntradas == {D0101, D3101}
ValorSmEntradas == {<<"S", "M">>, <<"s", "m", " ">>, caida_}

-----------------------------------------------------------------------------
(* The session: every interaction runs the script again *)

Init == AppIdle /\ FnIdle

\* st.file_uploader: a file arrives, the widgets show their defaults
Upload(t) ==
    /\ ~uploaded_file
    /\ uploaded_file' = TRUE
    /\ df' = t
    /\ col_incidentes' = DefaultColumn({"incident"})
    /\ col_traslado' = DefaultColumn({"traslado", "hospital", "transfer"})
    /\ UNCHANGED <<usar_fechas, col_fechas, fecha_inicio_str, fecha_fin_str,
                   incluir_sm, col_sm, valor_sm>>
    /\ salida' = Script(df', Cfg', FALSE, ahora)
    /\ UNCHANGED fnVars

SelectIncidentes(c) ==
    /\ uploaded_file
    /\ col_incidentes' = c
    /\ UNCHANGED <<uploaded_file, df, col_traslado, usar_fechas, col_fechas,
                   fecha_inicio_str, fecha_fin_str, incluir_sm, col_sm,
                   valor_sm>>
    /\ salida' = Script(df', Cfg', FALSE, ahora)
    /\ UNCHANGED fnVars

SelectTraslado(c) ==
    /\ uploaded_file
    /\ col_traslado' = c
    /\ UNCHANGED <<uploaded_file, df, col_incidentes, usar_fechas, col_fechas,
                   fecha_inicio_str, fecha_fin_str, incluir_sm, col_sm,
                   valor_sm>>
    /\ salida' = Script(df', Cfg', FALSE, ahora)
    /\ UNCHANGED fnVars

\* the checkbox: the widgets under it appear with their defaults, or go
ToggleUsarFechas ==
    /\ uploaded_file
    /\ usar_fechas' = ~usar_fechas
    /\ col_fechas' = IF usar_fechas' THEN DefaultColumn({"fecha", "date"})
                     ELSE "None"
    /\ fecha_inicio_str' = <<>>
    /\ fecha_fin_str' = <<>>
    /\ UNCHANGED <<uploaded_file, df, col_incidentes, col_traslado, incluir_sm, col_sm,
                   valor_sm>>
    /\ salida' = Script(df', Cfg', FALSE, ahora)
    /\ UNCHANGED fnVars

SelectFechas(c) ==
    /\ uploaded_file
    /\ usar_fechas
    /\ col_fechas' = c
    /\ UNCHANGED <<uploaded_file, df, col_incidentes, col_traslado, usar_fechas,
                   fecha_inicio_str, fecha_fin_str, incluir_sm, col_sm,
                   valor_sm>>
    /\ salida' = Script(df', Cfg', FALSE, ahora)
    /\ UNCHANGED fnVars

SetFechaInicio(s) ==
    /\ uploaded_file
    /\ usar_fechas /\ col_fechas # "None"
    /\ fecha_inicio_str' = s
    /\ UNCHANGED <<uploaded_file, df, col_incidentes, col_traslado, usar_fechas, col_fechas,
                   fecha_fin_str, incluir_sm, col_sm, valor_sm>>
    /\ salida' = Script(df', Cfg', FALSE, ahora)
    /\ UNCHANGED fnVars

SetFechaFin(s) ==
    /\ uploaded_file
    /\ usar_fechas /\ col_fechas # "None"
    /\ fecha_fin_str' = s
    /\ UNCHANGED <<uploaded_file, df, col_incidentes, col_traslado, usar_fechas, col_fechas,
                   fecha_inicio_str, incluir_sm, col_sm, valor_sm>>
    /\ salida' = Script(df', Cfg', FALSE, ahora)
    /\ UNCHANGED fnVars

ToggleIncluirSm ==
    /\ uploaded_file
    /\ incluir_sm' = ~incluir_sm
    /\ col_sm' = IF incluir_sm'
                 THEN DefaultColumn({"servicio", "medic", "sm"})
                 ELSE "None"
    /\ valor_sm' = <<"S", "M">>
    /\ UNCHANGED <<uploaded_file, df, col_incidentes, col_traslado, usar_fechas, col_fechas,
                   fecha_inicio_str, fecha_fin_str>>
    /\ salida' = Script(df', Cfg', FALSE, ahora)
    /\ UNCHANGED fnVars

SelectSm(c) ==
    /\ uploaded_file
    /\ incluir_sm
    /\ col_sm' = c
    /\ UNCHANGED <<uploaded_file, df, col_incidentes, col_traslado, usar_fechas, col_fechas,
                   fecha_inicio_str, fecha_fin_str, incluir_sm, valor_sm>>
    /\ salida' = Script(df', Cfg', FALSE, ahora)
    /\ UNCHANGED fnVars

SetValorSm(v) ==
    /\ uploaded_file
    /\ incluir_sm /\ col_sm # "None"
    /\ valor_sm' = v
    /\ UNCHANGED <<uploaded_file, df, col_incidentes, col_traslado, usar_fechas, col_fechas,
                   fecha_inicio_str, fecha_fin_str, incluir_sm, col_sm>>
    /\ salida' = Script(df', Cfg', FALSE, ahora)
    /\ UNCHANGED fnVars

\* the button "Generar Reporte Completo", shown once both columns are chosen
GenerarReporte ==
    /\ uploaded_file
    /\ HayColumnas(Cfg)
    /\ UNCHANGED <<uploaded_file, df, col_incidentes, col_traslado, usar_fechas, col_fechas,
                   fecha_inicio_str, fecha_fin_str, incluir_sm, col_sm,
                   valor_sm>>
    /\ salida' = Script(df', Cfg', TRUE, ahora)
    /\ UNCHANGED fnVars

Next ==
    \/ \E t \in Tablas : Upload(t)
    \/ \E c \in IncidentesChoices : SelectIncidentes(c)
    \/ \E c \in TrasladoChoices : SelectTraslado(c)
    \/ ToggleUsarFechas
    \/ \E c \in FechasChoices : SelectFechas(c)
    \/ \E s \in FechaEntradas : SetFechaInicio(s)
    \/ \E s \in FechaEntradas : SetFechaFin(s)
    \/ ToggleIncluirSm
    \/ \E c \in SmChoices : SelectSm(c)
    \/ \E v \in ValorSmEntradas : SetValorSm(v)
    \/ GenerarReporte

Spec == Init /\ [][Next]_vars

-----------------------------------------------------------------------------
(* Properties of the report pipeline, checked under Spec *)

\* the index labels of a frame: which uploaded rows it holds
Idx(frame) == {frame[i].idx : i \in DOMAIN frame}

\* the last run went past the button
Clicked == salida.estado \in {"reporte", "sin_datos"}

ReporteHecho == salida.estado = "reporte"

Ini == strptime(StrStrip(fecha_inicio_str), FmtEntrada)

Fin == strptime(StrStrip(fecha_fin_str), FmtEntrada)

\* the user has entered a start and an end date for a date column
RangoDado ==
    /\ usar_fechas /\ col_fechas # "None"
    /\ fecha_inicio_str # <<>> /\ fecha_fin_str # <<>>
    /\ Ini.exc = "none" /\ Fin.exc = "none"

RangoInvertidoDado == RangoDado /\ ~DateLE(Ini.val, Fin.val)

\* the uploaded rows whose date parses and lies in the range, bounds included
EnElRango ==
    {i \in DOMAIN df :
        /\ parsear_fecha(df[i][col_fechas], ahora) # None
        /\ DateLE(Ini.val, parsear_fecha(df[i][col_fechas], ahora).d)
        /\ DateLE(parsear_fecha(df[i][col_fechas], ahora).d, Fin.val)}

SplitActivo == incluir_sm /\ col_sm # "None"

RECURSIVE SumOver(_, _)
SumOver(f, S) ==
    IF S = {} THEN 0
    ELSE LET x == CHOOSE y \in S : TRUE
         IN  f[x] + SumOver(f, S \ {x})

Total(f) == SumOver(f, DOMAIN f)

\* how many of the uploaded rows S hold an affirmative transfer value
Afirmativas(S) ==
    Cardinality({i \in S : es_traslado_afirmativo(df[i][col_traslado]).val})

\* C1: the overall CountTable groups the incident types by limpiar_texto:
\* the records whose values normalize to the same text are counted in one
\* entry, labelled with the first-seen original value.
C1_AgrupaNormalizado ==
    ReporteHecho =>
        \A i \in Idx(salida.df_clean) :
            df[i][col_incidentes] # Null =>
                LET grupo == {j \in Idx(salida.df_clean) :
                                 /\ df[j][col_incidentes] # Null
                                 /\ limpiar_texto(df[j][col_incidentes])
                                      = limpiar_texto(df[i][col_incidentes])}
                    primero == CHOOSE j \in grupo : \A k \in grupo : j <= k
                    t == salida.conteos[TOTAL]
                IN  /\ df[primero][col_incidentes] \in DOMAIN t
                    /\ t[df[primero][col_incidentes]] = Cardinality(grupo)
                    /\ \A l \in DOMAIN t :
                          limpiar_texto(l)
                            = limpiar_texto(df[i][col_incidentes])
                          => l = df[primero][col_incidentes]

\* C2: with a date range given, the rows that reach counting are exactly the
\* uploaded rows whose date parses and lies in the range, bounds included, in
\* their order; the overall count and the overall transfers are taken over
\* them, and no table or transfer entry counts more than them.
C2_RangoFiltra ==
    (Clicked /\ RangoDado) =>
        /\ Idx(salida.df_clean) = EnElRango
        /\ \A i, j \in DOMAIN salida.df_clean :
              i < j => salida.df_clean[i].idx < salida.df_clean[j].idx
        /\ \A i \in DOMAIN salida.df_clean :
              \A c \in ColumnSet \ {col_sm} :
                  salida.df_clean[i].celdas[c] = df[salida.df_clean[i].idx][c]
        /\ ReporteHecho =>
              /\ DOMAIN salida.conteos[TOTAL]
                   = {df[i][col_incidentes] : i \in EnElRango} \ {Null}
              /\ \A l \in DOMAIN salida.conteos[TOTAL] :
                    salida.conteos[TOTAL][l]
                      = Cardinality({i \in EnElRango :
                                        df[i][col_incidentes] = l})
              /\ salida.traslados_info[T_TOTAL] = Afirmativas(EnElRango)
              /\ \A n \in DOMAIN salida.conteos :
                    Total(salida.conteos[n]) <= Cardinality(EnElRango)
              /\ \A n \in DOMAIN salida.traslados_info :
                    salida.traslados_info[n] <= Cardinality(EnElRango)

\* a report from a range that keeps one row and drops another
C2_Witness ==
    /\ ReporteHecho /\ RangoDado
    /\ EnElRango # {}
    /\ EnElRango # DOMAIN df
    /\ Idx(salida.df_clean) = EnElRango

\* C3: when the date filter leaves no row, the run ends with the no-data
\* error and produces nothing: no CountTable, no transfer entry, no report.
C3_SinDatosAtomico ==
    (Clicked /\ RangoDado /\ EnElRango = {}) =>
        /\ salida.estado = "sin_datos"
        /\ "error_sin_datos" \in salida.mensajes
        /\ "success_reportes" \notin salida.mensajes
        /\ DOMAIN salida.conteos = {}
        /\ DOMAIN salida.traslados_info = {}

\* a table with rows, a well-ordered range and no row in it
C3_Witness ==
    /\ Clicked /\ RangoDado /\ DateLE(Ini.val, Fin.val)
    /\ df # <<>> /\ EnElRango = {}
    /\ salida.estado = "sin_datos"

\* C4: the overall transfer entry is the number of rows of the (filtered)
\* table whose transfer value is affirmative; with a split, each partition's
\* entry is that number over the partition's rows.
C4_Traslados ==
    ReporteHecho =>
        /\ T_TOTAL \in DOMAIN salida.traslados_info
        /\ salida.traslados_info[T_TOTAL]
             = Afirmativas(Idx(salida.df_clean))
        /\ SplitActivo =>
              /\ {T_SM, T_PC} \subseteq DOMAIN salida.traslados_info
              /\ salida.traslados_info[T_SM] = Afirmativas(Idx(salida.df_sm))
              /\ salida.traslados_info[T_PC]
                   = Afirmativas(Idx(salida.df_no_sm))

\* a split report with transfers in both partitions and a row without one
C4_Witness ==
    /\ ReporteHecho /\ SplitActivo
    /\ salida.traslados_info[T_SM] = 1
    /\ salida.traslados_info[T_PC] = 1
    /\ Len(salida.df_sm) + Len(salida.df_no_sm) = Len(df)

\* comparison that ignores case and surrounding whitespace
Plegar(s) == StrLower(StrStrip(s))

\* C5: with a split, the matched partition holds exactly the rows whose
\* split value equals the match value, both compared without case and
\* without surrounding whitespace; the unmatched partition holds the rest.
C5_ParticionPlegada ==
    (ReporteHecho /\ SplitActivo) =>
        /\ Idx(salida.df_sm)
             = {i \in Idx(salida.df_clean) :
                   Plegar(PyStr(df[i][col_sm])) = Plegar(valor_sm)}
        /\ Idx(salida.df_no_sm)
             = Idx(salida.df_clean) \ Idx(salida.df_sm)

C7_InvertidoNoSeAplica ==
    RangoInvertidoDado => "info_datos_filtrados" \notin salida.mensajes

\* C8: with the incident or the transfer column unchosen, or naming a column
\* the table lacks, the run ends with the column warning and computes no
\* CountTable and no transfer entry.
C8_ColumnasRequeridas ==
    (uploaded_file /\ ({col_incidentes, col_traslado} \ ColumnSet # {})) =>
        /\ salida.estado = "aviso"
        /\ "warning_columnas" \in salida.mensajes
        /\ DOMAIN salida.conteos = {}
        /\ DOMAIN salida.traslados_info = {}

\* the transfer column is chosen, the incident column is not
C8_Witness ==
    /\ uploaded_file /\ df # <<>>
    /\ col_incidentes = "None" /\ col_traslado # "None"
    /\ salida.estado = "aviso"

-----------------------------------------------------------------------------
(* Properties of the helpers, checked under SpecFecha and SpecAfirmativo *)

\* the first format of formatos that strptime accepts for s, 0 if none
PrimerFormato(s) ==
    IF \E i \in DOMAIN formatos : strptime(s, formatos[i]).exc = "none"
    THEN CHOOSE i \in DOMAIN formatos :
            /\ strptime(s, formatos[i]).exc = "none"
            /\ \A j \in 1..(i - 1) : strptime(s, formatos[j]).exc # "none"
    ELSE 0

\* year before 2000, or later than the same day of next year
Implausible(d, now) ==
    d[1] < 2000 \/ ~DateLE(d, <<now[1] + 1, now[2], now[3]>>)

\* C9: the first format that parses the text decides: when the date it
\* gives is before 2000 or more than a year ahead, parsear_fecha returns
\* None, not a date from a later format.
C9_PrimerFormatoDecide ==
    (fn = "parsear_fecha" /\ IsStr(arg)) =>
        LET s == CollapseSpaces(StrStrip(arg.s))
        IN  (PrimerFormato(s) # 0
             /\ Implausible(strptime(s, formatos[PrimerFormato(s)]).val,
                            ahora))
            => ret.val = None

SiEjemplos ==
    {Str(<<"S", "U00ED">>), Str(<<"S", "I">>), Str(<<"1">>),
     Str(<<"t", "r", "u", "e">>), Str(<<"2">>)}

NoEjemplos == {Str(<<"n", "o">>), Str(<<"0">>), Str(<<>>), Null}

\* C10: es_traslado_afirmativo never raises; it is false for NaN and for
\* the empty string, and otherwise true exactly when the trimmed lower-case
\* text is an affirmative token or the trimmed text is a number above zero.
C10_AfirmativoTotal ==
    fn = "es_traslado_afirmativo" =>
        /\ ret.exc = "none"
        /\ ret.val \in BOOLEAN
        /\ arg \in {Null, Str(<<>>)} => ret.val = FALSE
        /\ arg \notin {Null, Str(<<>>)} =>
              (ret.val <=>
                  \/ Plegar(arg.s) \in afirmativos
                  \/ /\ PyFloat(StrStrip(arg.s)).exc = "none"
                     /\ PyFloat(StrStrip(arg.s)).sign = "pos")
        /\ arg \in SiEjemplos => ret.val = TRUE
        /\ arg \in NoEjemplos => ret.val = FALSE

\* a number that is no token is affirmative, and a token that is no number
C10_Witness ==
    /\ fn = "es_traslado_afirmativo"
    /\ arg \in {Str(<<"2", ".">>), Str(<<" ", "S", "U00CD">>)}
    /\ ret.val = TRUE


-----------------------------------------------------------------------------
(* Properties of the working frames and of limpiar_texto *)

\* C11: no step of a report generation overwrites a table in place: after
\* the run the uploaded table is as it was, and the working table df_clean
\* that the date filter and the split read still holds, row by row, the
\* values of the uploaded rows it was made of.
C11_SinMutacion ==
    ReporteHecho =>
        \A i \in DOMAIN salida.df_clean :
            \A c \in ColumnSet :
                salida.df_clean[i].celdas[c]
                    = df[salida.df_clean[i].idx][c]

\* C12: limpiar_texto is idempotent on a str, and returns a value that is
\* no str unchanged.
C12_Idempotente ==
    fn = "limpiar_texto" =>
        /\ limpiar_texto(ret.val) = ret.val
        /\ ~IsStr(arg) => ret.val = arg

\* a text whose non-ASCII head uncovers whitespace has been cleaned
C12_Witness ==
    /\ fn = "limpiar_texto"
    /\ arg = Str(<<"U2713", " ", "A">>)
    /\ ret.val = Str(<<"a">>)

\* the count of label l in the CountTable called name, 0 when the table or
\* the label is missing
CountOf(name, l) ==
    IF name \in DOMAIN salida.conteos
    THEN IF l \in DOMAIN salida.conteos[name]
         THEN salida.conteos[name][l]
         ELSE 0
    ELSE 0

\* every label of every CountTable of the report
Labels == UNION {DOMAIN salida.conteos[n] : n \in DOMAIN salida.conteos}

\* C13: with a split, every label's count in the overall CountTable is its
\* count in the matched partition plus its count in the unmatched one,
\* whichever column is split on.
C13_Conservacion ==
    (ReporteHecho /\ SplitActivo) =>
        \A l \in Labels :
            CountOf(TOTAL, l) = CountOf(SM, l) + CountOf(PC, l)

=============================================================================
